---- MODULE Spec2Model ----
(***************************************************************************)
(* Model of src/library/src/factory.js: the module composition functions  *)
(* (merge, preperValidation, store), the page lifecycle hooks (preFetch, *)
(* mounted, destroyed) that register a store module, and the collection  *)
(* actions page.setup binds.                                              *)
(*                                                                         *)
(* JavaScript values are encoded as follows.                               *)
(*   - a property value is a record [t, v]: t is the typeof of the value, *)
(*     v a natural number (the number itself, 0/1 for false/true, or the  *)
(*     identity of a function value);                                     *)
(*   - a section (state, mutations, actions, getters) is Undefined or a   *)
(*     record [kind, id, body, map]: kind is "object" for a plain mapping *)
(*     and "function" for a zero-argument factory, id is the identity of  *)
(*     the object (who created it), body says what a factory does when it *)
(*     is invoked, and map holds the own properties.                      *)
(***************************************************************************)
EXTENDS Integers, FiniteSets, Sequences, TLC

VARIABLES
  \* merge in isolation
  margs,        \* the arguments of a call of merge
  mret,         \* what that call returned
  minv,         \* what invoking the returned factory returned
  minv2,        \* what invoking it a second time returned
  mpc,          \* "args" -> "merged" -> "invoked"
  \* store() and the page hooks
  def,          \* the argument of store(): options and the user's sections
  storeModule,  \* what store(def) returned, handed to page()
  modState,     \* store.state[moduleName]
  installed,    \* the views whose registerModule installed the handlers now
                \* in store._mutations / store._actions under moduleName
  objState,     \* the own properties of storeModule.state when it is an object
  combs,        \* how many tokens uuid.comb() has produced
  pc,           \* per view: the last lifecycle hook that ran
  ret,          \* per view: what the preFetch hook gave its caller
  cont,         \* per view: where the promise chain of preFetch stands
  ops,          \* per view: the registry calls its preFetch hook made
  lastProbe,    \* the latest run of checkModule
  sent,         \* per view: the payload its preFetch hook dispatched initialize with
  regState,     \* per view: the state its registerModule put under moduleName
  validated,    \* the user's sections as preperValidation left them, inside store()
  \* page.setup's collection actions
  collection,   \* a collection descriptor of options.collections
  setupActions, \* the actions page.setup bound for the descriptor's item type
  setupCall,    \* a call of a bound action: its name and arguments
  setupSent,    \* what that call dispatched to the store
  spc           \* "args" -> "setup" -> "called"

mvars == << margs, mret, minv, minv2, mpc >>
pvars == << def, storeModule, modState, installed, objState, combs, pc, ret,
            cont, ops, lastProbe, sent, regState, validated >>
svars == << collection, setupActions, setupCall, setupSent, spc >>
vars == << margs, mret, minv, minv2, mpc, def, storeModule, modState, installed,
           objState, combs, pc, ret, cont, ops, lastProbe, sent, regState,
           validated,
           collection, setupActions, setupCall, setupSent, spc >>

\* ------------------------------------------------------------------ values

Undefined == [kind |-> "undefined"]

Num(n) == [t |-> "number", v |-> n]
False == [t |-> "boolean", v |-> 0]
True == [t |-> "boolean", v |-> 1]
Fn(n) == [t |-> "function", v |-> n]
Ref(n) == [t |-> "object", v |-> n]

EmptyMap == [k \in {} |-> Num(0)]

Obj(id, m) == [kind |-> "object", id |-> id, body |-> "none", map |-> m]
Factory(id, body, m) == [kind |-> "function", id |-> id, body |-> body, map |-> m]

\* JS truthiness of a section: an object or a function is truthy, undefined is not.
Truthy(x) == x # Undefined

\* x.call is truthy exactly for functions.
HasCall(x) == x.kind = "function"

\* model && model[name]
Section(frag, name) ==
  IF frag = Undefined THEN Undefined
  ELSE IF name \in DOMAIN frag THEN frag[name] ELSE Undefined

\* { ...a, ...b }: own properties of a, overwritten by those of b.
Spread(a, b) ==
  [k \in DOMAIN a \cup DOMAIN b |-> IF k \in DOMAIN b THEN b[k] ELSE a[k]]

\* JSON.parse(JSON.stringify(m)): properties whose value is a function (or
\* undefined) are dropped, numbers and booleans survive.
JSONCopy(m) == [k \in {j \in DOMAIN m : m[j].t # "function"} |-> m[k]]

\* Invoking a factory: the mapping it returns.
Invoke(f) == IF f.body = "json" THEN JSONCopy(f.map) ELSE f.map

\* The nested objects a call creates are new objects: the n-th call's copy of
\* the nested object o is the object o + 10 * n.
Fresh(m, n) ==
  [k \in DOMAIN m |-> IF m[k].t = "object" THEN Ref(m[k].v + 10 * n) ELSE m[k]]

\* The mapping the n-th invocation of a factory returns, nested objects told
\* apart by identity: a factory written by the page author (or the model's
\* `new options.model()`) builds its nested values anew, JSON.parse builds new
\* objects throughout, and { ...obj } copies the references obj holds.
Call(f, n) ==
  IF f.body = "json" THEN Fresh(JSONCopy(f.map), n)
  ELSE IF f.body = "source" THEN Fresh(f.map, n)
  ELSE f.map

\* x.call ? x() : x, as used by merge to materialize a source.
Materialize(x) == IF HasCall(x) THEN Invoke(x) ELSE x.map

\* ------------------------------------------------------------------- merge

\* The four sources in the order merge spreads them.
MergeOrder(name, model, collections, complexTypes, user) ==
  << user, Section(model, name), Section(collections, name),
     Section(complexTypes, name) >>

\* conditions = [model && model[name], collections && collections[name], !!user]
\*                .filter(c => c)
conditions(name, model, collections, complexTypes, user) ==
  { i \in 1..3 :
      Truthy(<< Section(model, name), Section(collections, name), user >>[i]) }

RECURSIVE SpreadAll(_, _)
SpreadAll(srcs, n) ==
  IF n = 0 THEN EmptyMap
  ELSE IF Truthy(srcs[n])
       THEN Spread(SpreadAll(srcs, n - 1), Materialize(srcs[n]))
       ELSE SpreadAll(srcs, n - 1)

mergeSingleCopies(name, model, collections, complexTypes, user) ==
  LET srcs == MergeOrder(name, model, collections, complexTypes, user)
      merged == SpreadAll(srcs, 4)
      isFunc == \E i \in 1..4 : Truthy(srcs[i]) /\ HasCall(srcs[i])
  IN
  IF \E i \in 1..4 : Truthy(srcs[i])
  THEN IF isFunc THEN Factory("merged", "json", merged) ELSE Obj("merged", merged)
  ELSE user

merge(name, model, collections, complexTypes, user) ==
  LET srcs == MergeOrder(name, model, collections, complexTypes, user)
      merged == SpreadAll(srcs, 4)
      isFunc == \E i \in 1..4 : Truthy(srcs[i]) /\ HasCall(srcs[i])
  IN
  IF Cardinality(conditions(name, model, collections, complexTypes, user)) > 1
  THEN IF isFunc THEN Factory("merged", "json", merged) ELSE Obj("merged", merged)
  ELSE IF Truthy(Section(model, name)) THEN Section(model, name)
  ELSE IF Truthy(Section(collections, name)) THEN Section(collections, name)
  ELSE IF Truthy(Section(complexTypes, name)) THEN Section(complexTypes, name)
  ELSE user

\* -------------------------------------------------------- preperValidation

validationField == "@@"
fetchedField == "@tmu_fetch"

\* The fields store() asks preperValidation to inject: { "@@": 0, "@tmu_fetch": false }
fields ==
  [f \in {validationField, fetchedField} |->
     IF f = validationField THEN Num(0) ELSE False]

\* function (state, value) { state[field] = value; }
DirectAssign == Fn(0)

\* store.x || {}
OrEmpty(x, id) == IF Truthy(x) THEN x ELSE Obj(id, EmptyMap)

preperValidationMutationsOnly(st, fs) ==
  LET muts0 == OrEmpty(st.mutations, "preperValidation")
      muts == [muts0 EXCEPT !.map = Spread(@, [f \in DOMAIN fs |-> DirectAssign])]
      state0 == OrEmpty(st.state, "preperValidation")
  IN [st EXCEPT !.mutations = muts, !.state = state0]

preperValidationKeepsDeclared(st, fs) ==
  LET muts0 == OrEmpty(st.mutations, "preperValidation")
      muts == [muts0 EXCEPT !.map = Spread([f \in DOMAIN fs |-> DirectAssign], @)]
      state0 == OrEmpty(st.state, "preperValidation")
      isFunc == HasCall(state0)
      obj == Spread(fs, Materialize(state0))
      state == IF isFunc THEN Factory("preperValidation", "spread", obj)
               ELSE [state0 EXCEPT !.map = obj]
  IN [st EXCEPT !.mutations = muts, !.state = state]

preperValidation(st, fs) ==
  LET muts0 == OrEmpty(st.mutations, "preperValidation")
      muts == [muts0 EXCEPT !.map = Spread(@, [f \in DOMAIN fs |-> DirectAssign])]
      state0 == OrEmpty(st.state, "preperValidation")
      isFunc == HasCall(state0)
      obj == Spread(Materialize(state0), fs)
      state == IF isFunc THEN Factory("preperValidation", "spread", obj)
               ELSE [state0 EXCEPT !.map = obj]
  IN [st EXCEPT !.mutations = muts, !.state = state]

\* ------------------------------------------------------------------- store

\* new options.model(): the own properties of a model instance.
ModelState == [k \in {"title", "jobs"} |-> IF k = "jobs" THEN Ref(2) ELSE Num(2)]

\* mapStoreMutations(options.model): one mutation per model field.
mapStoreMutations == Obj("model", [k \in DOMAIN ModelState |-> Fn(2)])

\* mapStoreCollections(options.collections), for one descriptor
\* { single: "job", plural: "jobs" }: the mapper contributes mutations,
\* actions and getters; the state field jobs is declared by the model or user.
mapStoreCollections ==
  [ mutations |-> Obj("collections",
                      [k \in {"saveOrUpdateJob", "deleteJob"} |-> Fn(3)]),
    actions |-> Obj("collections",
                    [k \in {"saveOrUpdateJob", "deleteJob"} |-> Fn(3)]),
    getters |-> Obj("collections", [k \in {"jobsIndex", "jobById"} |-> Fn(3)]) ]

\* mapStoreComplexTypes(options.complexTypes), for one descriptor
\* { name: "address" } whose type has the property street: a mutation, an
\* action and a getter per property.
mapStoreComplexTypes ==
  [ mutations |-> Obj("complexTypes", [k \in {"setStreetOfAddress"} |-> Fn(4)]),
    actions |-> Obj("complexTypes", [k \in {"setStreetOfAddress"} |-> Fn(4)]),
    getters |-> Obj("complexTypes", [k \in {"streetOfAddress"} |-> Fn(4)]) ]

\* initialize || function (context, values) {}
InitializeArg == Fn(5)
NoOpInitialize == Fn(6)

\* The fragments store() builds from options.model, options.collections and
\* options.complexTypes.
ModelFragment(d) ==
  IF d.model
  THEN [ state |-> Factory("model", "source", ModelState),
         mutations |-> mapStoreMutations ]
  ELSE Undefined

CollectionsFragment(d) == IF d.collections THEN mapStoreCollections ELSE Undefined

ComplexTypesFragment(d) == IF d.complexTypes THEN mapStoreComplexTypes ELSE Undefined

\* The user's sections after preperValidation(store, fields).
Validated(d) ==
  preperValidation(
    [ state |-> d.state, mutations |-> d.mutations,
      actions |-> d.actions, getters |-> d.getters ], fields)

\* store.actions = merge({ name: "actions", ... }) || {}
MergedActions(d) ==
  OrEmpty(merge("actions", ModelFragment(d), CollectionsFragment(d),
                ComplexTypesFragment(d), Validated(d).actions), "store")

\* if (!store.actions.initialize)
\*   store.actions.initialize = initialize || function (context, values) {}
installInitializeAlways(actions, init) ==
  [actions EXCEPT !.map =
     Spread(@, [k \in {"initialize"} |->
                  IF init THEN InitializeArg ELSE NoOpInitialize])]

installInitialize(actions, init) ==
  IF actions.kind = "object" /\ "initialize" \notin DOMAIN actions.map
  THEN [actions EXCEPT !.map =
          Spread(@, [k \in {"initialize"} |->
                       IF init THEN InitializeArg ELSE NoOpInitialize])]
  ELSE actions

store(d) ==
  LET model == ModelFragment(d)
      collections == CollectionsFragment(d)
      complexTypes == ComplexTypesFragment(d)
      st == Validated(d)
      mutations == OrEmpty(merge("mutations", model, collections, complexTypes,
                                 st.mutations), "store")
  IN [ namespaced |-> TRUE,
       state |-> merge("state", model, collections, complexTypes, st.state),
       mutations |-> mutations,
       actions |-> installInitialize(MergedActions(d), d.initialize),
       getters |-> merge("getters", model, collections, complexTypes, st.getters) ]

\* -------------------------------------------- the store's module registry
\* The registry as the hooks use it: s is [state, installed, obj], the values
\* of modState, installed and objState.

Views == {"A", "B"}

\* The views' registrations are numbered: each invokes a state factory once.
ViewNo(v) == IF v = "A" THEN 1 ELSE 2

\* The own properties of a section object ({} for a factory, whose own
\* properties are not its mapping).
Props(x) == IF x.kind = "object" THEN x.map ELSE EmptyMap

\* store.state[moduleName] shares the module definition's state object when
\* that state is a plain mapping; a factory gives every registration its own.
SharedState == storeModule.state.kind = "object"

\* store._mutations[`${moduleName}/${field}`]
HasMutation(s, field) ==
  Len(s.installed) > 0 /\ field \in DOMAIN Props(storeModule.mutations)

\* store._actions[`${moduleName}/${action}`]
HasAction(s, action) ==
  Len(s.installed) > 0 /\ action \in DOMAIN Props(storeModule.actions)

\* store.commit(`${moduleName}/${field}`, value): every installed handler of
\* that type runs on the state now under moduleName; an unknown type is
\* reported and nothing is written.
commit(s, field, value) ==
  IF HasMutation(s, field) /\ Props(storeModule.mutations)[field] = DirectAssign
     /\ s.state # Undefined
  THEN LET written == Spread(s.state, [k \in {field} |-> value])
       IN [s EXCEPT !.state = written,
                    !.obj = IF SharedState THEN written ELSE @]
  ELSE s

\* store.registerModule(moduleName, storeModule): the module's state replaces
\* store.state[moduleName] and its handlers are added to those installed.
registerModule(s, v) ==
  [s EXCEPT !.state = IF SharedState THEN s.obj
                      ELSE Call(storeModule.state, ViewNo(v)),
            !.installed = Append(@, v)]

\* store.unregisterModule(moduleName): the state is deleted and the store is
\* reset, which drops every handler installed under moduleName.
unregisterModule(s) ==
  [s EXCEPT !.state = Undefined, !.installed = << >>]

\* uuid.comb(): a token no earlier call returned.
comb(n) == [t |-> "string", v |-> n + 1]

\* ------------------------------------------------------------- checkModule

\* One run of checkModule with the callbacks its caller passes.  Returns the
\* registry after the probe's commit and what the probe did: "success" or
\* "failure" for the callback it would call, "skipped" when it calls neither.
checkModuleNoElse(s, n) ==
  LET after == commit(s, validationField, comb(n))
      value == IF validationField \in DOMAIN after.state
               THEN after.state[validationField] ELSE Undefined
  IN IF validationField \in DOMAIN Props(storeModule.mutations)
     THEN IF s.state # Undefined /\ HasMutation(s, validationField)
          THEN [ store |-> after, combs |-> n + 1,
                 outcome |-> IF value = comb(n) THEN "success" ELSE "failure" ]
          ELSE [ store |-> s, combs |-> n + 1, outcome |-> "skipped" ]
     ELSE [ store |-> s, combs |-> n, outcome |-> "skipped" ]

checkModule(s, n) ==
  LET after == commit(s, validationField, comb(n))
      value == IF validationField \in DOMAIN after.state
               THEN after.state[validationField] ELSE Undefined
  IN IF validationField \in DOMAIN Props(storeModule.mutations)
     THEN IF s.state # Undefined /\ HasMutation(s, validationField)
          THEN [ store |-> after, combs |-> n + 1,
                 outcome |-> IF value = comb(n) THEN "success" ELSE "failure" ]
          ELSE [ store |-> s, combs |-> n + 1, outcome |-> "failure" ]
     ELSE [ store |-> s, combs |-> n, outcome |-> "skipped" ]

\* The registry calls of page.preFetch, in order: unregisterModule in the
\* probe's success callback, then registerModule whatever the probe did.
MountCallsReuse(outcome) ==
  IF outcome = "success" THEN << >> ELSE << "registerModule" >>

MountCalls(outcome) ==
  IF outcome = "success" THEN << "unregisterModule", "registerModule" >>
  ELSE << "registerModule" >>

\* The registry calls of page.destroyed: unregisterModule in the probe's
\* success callback.
UnmountCalls(outcome) ==
  IF outcome = "success" THEN << "unregisterModule" >> ELSE << >>

RECURSIVE ApplyCalls(_, _, _)
ApplyCalls(s, calls, v) ==
  IF calls = << >> THEN s
  ELSE ApplyCalls(IF Head(calls) = "unregisterModule" THEN unregisterModule(s)
                  ELSE registerModule(s, v),
                  Tail(calls), v)

\* ------------------------------------------------------------ module input

\* The sections a page author passes to store().  store() treats the sections
\* independently of each other, so they are drawn together: every shape of
\* every section occurs in one of the fragments.
UserFragments ==
  { [ state |-> Undefined, mutations |-> Undefined, actions |-> Undefined ],
    [ state |-> Obj("user", [k \in {"count"} |-> Num(1)]),
      mutations |-> Obj("user", [k \in {"setCount"} |-> Fn(1)]),
      actions |-> Obj("user", [k \in {"load"} |-> Fn(1)]) ],
    [ state |-> Obj("user", [k \in {"count", validationField} |-> Num(1)]),
      mutations |-> Obj("user", [k \in {"setCount", validationField} |-> Fn(1)]),
      actions |-> Obj("user", [k \in {"load", "initialize"} |-> Fn(1)]) ],
    [ state |-> Factory("user", "source",
                        [k \in {"count", "items"} |->
                           IF k = "items" THEN Ref(1) ELSE Num(1)]),
      mutations |-> Undefined,
      actions |-> Obj("user", [k \in {"initialize"} |-> Fn(1)]) ],
    [ state |-> Factory("user", "source",
                        [k \in {"count", fetchedField} |-> Num(1)]),
      mutations |-> Obj("user", [k \in {fetchedField} |-> Fn(1)]),
      actions |-> Undefined ] }

\* The arguments of store(): the options that are present, the user's
\* sections and the initialize argument.
Definitions ==
  { [ model |-> o.model, collections |-> o.collections,
      complexTypes |-> o.complexTypes,
      state |-> u.state, mutations |-> u.mutations, actions |-> u.actions,
      getters |-> Undefined, initialize |-> i ] :
    o \in [ model : BOOLEAN, collections : BOOLEAN, complexTypes : BOOLEAN ],
    u \in UserFragments, i \in BOOLEAN }

\* The context the framework hands preFetch for view v.
Context(v) ==
  [ currentRoute |-> << "currentRoute", v >>,
    previousRoute |-> << "previousRoute", v >>,
    redirect |-> << "redirect", v >> ]

\* No dispatch yet.
NoPayload == [ route |-> << >>, from |-> << >>, next |-> << >> ]

\* { route: currentRoute, from: previousRoute, next: redirect }
InitializePayload(ctx) ==
  [ route |-> ctx.currentRoute, from |-> ctx.previousRoute, next |-> ctx.redirect ]

\* Whether the then-callback that runs when `stage` of the chain is fulfilled
\* commits the fetch flag: only the second one does, after the page's own
\* preFetch.
FetchedAfterInitialize(stage) == stage = "initialize"

FetchedAfter(stage) == stage = "userPreFetch"

NoProbe ==
  [ view |-> "none", hook |-> "none", defined |-> FALSE, registered |-> FALSE,
    hasMutation |-> FALSE, token |-> Undefined, seen |-> Undefined,
    owner |-> "none", outcome |-> "none" ]

\* --------------------------------------------------------------- page hooks

Registry == [state |-> modState, installed |-> installed, obj |-> objState]

\* The view whose registerModule put the state now under moduleName.
Owner(s) == IF Len(s.installed) = 0 THEN "none" ELSE s.installed[Len(s.installed)]

SetRegistry(s) ==
  /\ modState' = s.state
  /\ installed' = s.installed
  /\ objState' = s.obj

\* What a run of checkModule by view v found, for the record: what the store
\* held when it started, the token it drew, the validation field as it stood
\* when the probe ended, and the callback it called.
Probe(v, hook, p) ==
  [ view |-> v, hook |-> hook,
    defined |-> validationField \in DOMAIN Props(storeModule.mutations),
    registered |-> modState # Undefined,
    hasMutation |-> HasMutation(Registry, validationField),
    token |-> comb(combs),
    seen |-> IF validationField \in DOMAIN p.store.state
             THEN p.store.state[validationField] ELSE Undefined,
    owner |-> Owner(Registry),
    outcome |-> p.outcome ]

\* const storeModule = store({...}); page({ storeModule, moduleName, ... })
Store ==
  /\ storeModule = Undefined
  /\ validated' = Validated(def)
  /\ storeModule' = store(def)
  /\ objState' = Props(storeModule'.state)
  /\ UNCHANGED << def, modState, installed, combs, pc, ret, cont, ops, lastProbe,
                  sent, regState >>
  /\ UNCHANGED mvars
  /\ UNCHANGED svars

\* page.preFetch, up to the return of the hook: the probe, the registry calls,
\* the read of the fetch flag and the dispatch of initialize.
preFetch(v) ==
  /\ storeModule # Undefined
  /\ pc[v] = "unbound"
  /\ LET p == checkModule(Registry, combs)
         s == ApplyCalls(p.store, MountCalls(p.outcome), v)
         fetchedOk == fetchedField \in DOMAIN s.state
         dispatched == fetchedOk /\ HasAction(s, "initialize")
     IN /\ SetRegistry(s)
        /\ combs' = p.combs
        /\ lastProbe' = Probe(v, "preFetch", p)
        /\ ops' = [ops EXCEPT ![v] = MountCalls(p.outcome)]
        /\ pc' = [pc EXCEPT ![v] = IF dispatched THEN "preFetch" ELSE "threw"]
        /\ ret' = [ret EXCEPT ![v] = IF dispatched THEN "undefined" ELSE "threw"]
        /\ cont' = [cont EXCEPT ![v] = IF dispatched THEN "initialize" ELSE "none"]
        /\ sent' = [sent EXCEPT ![v] = IF dispatched
                                       THEN InitializePayload(Context(v))
                                       ELSE NoPayload]
        /\ regState' = [regState EXCEPT ![v] = s.state]
  /\ UNCHANGED << def, storeModule, validated >>
  /\ UNCHANGED mvars
  /\ UNCHANGED svars

\* The promise dispatch returned is fulfilled: the first then-callback calls
\* the page's own preFetch, if it has one.
InitializeDone(v) ==
  /\ cont[v] = "initialize"
  /\ SetRegistry(IF FetchedAfter("initialize")
                 THEN commit(Registry, fetchedField, True) ELSE Registry)
  /\ cont' = [cont EXCEPT ![v] = "userPreFetch"]
  /\ UNCHANGED << def, storeModule, combs, pc, ret, ops, lastProbe, sent, regState,
                  validated >>
  /\ UNCHANGED mvars
  /\ UNCHANGED svars

\* The initialize action fails asynchronously: the promise is rejected, no
\* then-callback runs and nothing handles the rejection.  The default no-op
\* initialize cannot fail.
InitializeFailed(v) ==
  /\ cont[v] = "initialize"
  /\ Props(storeModule.actions)["initialize"] # NoOpInitialize
  /\ cont' = [cont EXCEPT ![v] = "initializeRejected"]
  /\ UNCHANGED << def, storeModule, modState, installed, objState, combs, pc,
                  ret, ops, lastProbe, sent, regState, validated >>
  /\ UNCHANGED mvars
  /\ UNCHANGED svars

\* The second then-callback: store.commit(`${moduleName}/${fetchedField}`, true)
FetchedCommit(v) ==
  /\ cont[v] = "userPreFetch"
  /\ SetRegistry(IF FetchedAfter("userPreFetch")
                 THEN commit(Registry, fetchedField, True) ELSE Registry)
  /\ cont' = [cont EXCEPT ![v] = "done"]
  /\ UNCHANGED << def, storeModule, combs, pc, ret, ops, lastProbe, sent, regState,
                  validated >>
  /\ UNCHANGED mvars
  /\ UNCHANGED svars

\* The page's own preFetch fails: the second then-callback never runs.
UserPreFetchFailed(v) ==
  /\ cont[v] = "userPreFetch"
  /\ cont' = [cont EXCEPT ![v] = "preFetchRejected"]
  /\ UNCHANGED << def, storeModule, modState, installed, objState, combs, pc,
                  ret, ops, lastProbe, sent, regState, validated >>
  /\ UNCHANGED mvars
  /\ UNCHANGED svars

\* page.mounted
mounted(v) ==
  /\ pc[v] = "preFetch"
  /\ SetRegistry(commit(Registry, fetchedField, False))
  /\ pc' = [pc EXCEPT ![v] = "mounted"]
  /\ UNCHANGED << def, storeModule, combs, ret, cont, ops, lastProbe, sent,
                  regState, validated >>
  /\ UNCHANGED mvars
  /\ UNCHANGED svars

\* page.destroyed
destroyed(v) ==
  /\ pc[v] = "mounted"
  /\ LET p == checkModule(Registry, combs)
     IN /\ SetRegistry(ApplyCalls(p.store, UnmountCalls(p.outcome), v))
        /\ combs' = p.combs
        /\ lastProbe' = Probe(v, "destroyed", p)
  /\ pc' = [pc EXCEPT ![v] = "destroyed"]
  /\ UNCHANGED << def, storeModule, ret, cont, ops, sent, regState, validated >>
  /\ UNCHANGED mvars
  /\ UNCHANGED svars

\* ------------------------------------------------------ merge in isolation

MaxKeys == 2

KeyNames == << "a", "b", "c", "d" >>
Keys == { KeyNames[i] : i \in 1..MaxKeys }

Sections == {"state", "mutations", "actions", "getters"}

\* The values a source of a section holds: state fields hold nested objects,
\* the other sections hold functions; n tells the sources apart.
SourceValue(name, n) == IF name = "state" THEN Ref(n) ELSE Fn(n)

\* The shapes one source of a section can take: absent, a plain mapping or a
\* zero-argument factory over any set of keys.
Sources(name, id, n) ==
  {Undefined}
  \cup { Obj(id, [k \in K |-> SourceValue(name, n)]) : K \in SUBSET Keys }
  \cup { Factory(id, "source", [k \in K |-> SourceValue(name, n)]) :
           K \in SUBSET Keys }

\* A fragment (model, collections, complexTypes) holding the section, or none.
Fragments(name, id, n) ==
  {Undefined} \cup { [k \in {name} |-> x] : x \in Sources(name, id, n) \ {Undefined} }

MergeArgs ==
  UNION { [ name : {name},
            user : Sources(name, "user", 1),
            model : Fragments(name, "model", 2),
            collections : Fragments(name, "collections", 3),
            complexTypes : Fragments(name, "complexTypes", 4) ] :
          name \in Sections }

\* No call of a bound action of page.setup yet.
NoCall == [ name |-> << >>, id |-> 0, value |-> 0 ]
NoDispatch ==
  [ type |-> << >>,
    payload |-> [ id |-> 0, collection |-> << >>, property |-> << >>, value |-> 0 ] ]

SetupIdle ==
  /\ collection = Undefined
  /\ setupActions = {}
  /\ setupCall = NoCall
  /\ setupSent = NoDispatch
  /\ spc = "idle"

PageIdle ==
  /\ def = Undefined
  /\ storeModule = Undefined
  /\ modState = Undefined
  /\ installed = << >>
  /\ objState = EmptyMap
  /\ combs = 0
  /\ pc = [v \in Views |-> "unbound"]
  /\ ret = [v \in Views |-> "none"]
  /\ cont = [v \in Views |-> "none"]
  /\ ops = [v \in Views |-> << >>]
  /\ lastProbe = NoProbe
  /\ sent = [v \in Views |-> NoPayload]
  /\ regState = [v \in Views |-> Undefined]
  /\ validated = Undefined

InitMerge ==
  /\ margs \in MergeArgs
  /\ mret = Undefined
  /\ minv = Undefined
  /\ minv2 = Undefined
  /\ mpc = "args"
  /\ PageIdle
  /\ SetupIdle

\* merge({ name, model, collections, complexTypes, user })
Merge ==
  /\ mpc = "args"
  /\ mret' = merge(margs.name, margs.model, margs.collections,
                   margs.complexTypes, margs.user)
  /\ mpc' = "merged"
  /\ UNCHANGED << margs, minv, minv2 >>
  /\ UNCHANGED pvars
  /\ UNCHANGED svars

\* The caller invokes the section merge returned, when it is a factory, twice.
InvokeMerged ==
  /\ mpc = "merged"
  /\ mret # Undefined
  /\ HasCall(mret)
  /\ minv' = Call(mret, 1)
  /\ minv2' = Call(mret, 2)
  /\ mpc' = "invoked"
  /\ UNCHANGED << margs, mret >>
  /\ UNCHANGED pvars
  /\ UNCHANGED svars

NextMerge == Merge \/ InvokeMerged

SpecMerge == InitMerge /\ [][NextMerge]_vars

MergeIdle ==
  /\ margs = Undefined
  /\ mret = Undefined
  /\ minv = Undefined
  /\ minv2 = Undefined
  /\ mpc = "idle"

\* ------------------------------------------- page.setup: collection actions
\* Identifier strings are sequences of characters.

LowerCase == << "a", "b", "c", "d", "e", "f", "g", "h", "i", "j", "k", "l", "m",
                "n", "o", "p", "q", "r", "s", "t", "u", "v", "w", "x", "y", "z" >>
UpperCase == << "A", "B", "C", "D", "E", "F", "G", "H", "I", "J", "K", "L", "M",
                "N", "O", "P", "Q", "R", "S", "T", "U", "V", "W", "X", "Y", "Z" >>

toUpperCase(c) ==
  IF \E i \in DOMAIN LowerCase : LowerCase[i] = c
  THEN UpperCase[CHOOSE i \in DOMAIN LowerCase : LowerCase[i] = c]
  ELSE c

toLowerCase(c) ==
  IF \E i \in DOMAIN UpperCase : UpperCase[i] = c
  THEN LowerCase[CHOOSE i \in DOMAIN UpperCase : UpperCase[i] = c]
  ELSE c

\* getCases(x): the PascalCase and camelCase forms of a one-word identifier.
getCases(x) ==
  [ pascal |-> IF x = << >> THEN x ELSE << toUpperCase(x[1]) >> \o Tail(x),
    camel |-> IF x = << >> THEN x ELSE << toLowerCase(x[1]) >> \o Tail(x) ]

\* single.pascal.match(/^[aeiou].*/) ? "An" : "A", without the i flag
conjunctionCaseSensitive(pascal) ==
  IF pascal # << >> /\ pascal[1] \in {"a", "e", "i", "o", "u"}
  THEN << "A", "n" >> ELSE << "A" >>

\* single.pascal.match(/^[aeiou].*/i) ? "An" : "A"
conjunction(pascal) ==
  IF pascal # << >> /\ toLowerCase(pascal[1]) \in {"a", "e", "i", "o", "u"}
  THEN << "A", "n" >> ELSE << "A" >>

\* `set${name.pascal}Of${conjunction}${single.pascal}`
actionName(property, single) ==
  << "s", "e", "t" >> \o getCases(property).pascal \o << "O", "f" >>
    \o conjunction(single.pascal) \o single.pascal

\* The identifiers the descriptors are drawn from.
Word(n) ==
  << << "a", "p", "p", "l", "e" >>, << "j", "o", "b" >>, << "I", "t", "e", "m" >>,
     << "u", "s", "e", "r" >>, << "h", "o", "u", "r" >>, << "O", "r", "d", "e", "r" >>,
     << "s", "i", "z", "e" >>, << "i", "d" >> >>[n]

Singles == { Word(n) : n \in 1..6 }
Properties == { Word(n) : n \in 7..8 }

\* The largest id and value a bound action is called with.
MaxArg == 2

\* An item type, given by Object.keys(new collection.type()).
ItemType(properties) == [ kind |-> "type", properties |-> properties ]

\* The descriptors: type is Undefined when the descriptor has no item type.
Collections ==
  { [ single |-> w, plural |-> w \o << "s" >>, type |-> t ] :
      w \in Singles,
      t \in {Undefined} \cup { ItemType(P) : P \in SUBSET Properties \ {{}} } }

InitSetup ==
  /\ collection \in Collections
  /\ setupActions = {}
  /\ setupCall = NoCall
  /\ setupSent = NoDispatch
  /\ spc = "args"
  /\ PageIdle
  /\ MergeIdle

\* page.setup, the loop body for one descriptor: the per-property actions it
\* binds when the descriptor has an item type.  A bound action is the closure
\* over actionName, collection and property.
Setup ==
  /\ spc = "args"
  /\ setupActions' =
       IF collection.type # Undefined
       THEN { [ name |-> actionName(property, getCases(collection.single)),
                collection |-> collection.plural,
                property |-> property ] : property \in collection.type.properties }
       ELSE {}
  /\ spc' = "setup"
  /\ UNCHANGED << collection, setupCall, setupSent >>
  /\ UNCHANGED mvars
  /\ UNCHANGED pvars

\* The view calls a bound action with { id, value }:
\* $store.dispatch(`${moduleName}/${actionName}`, { id, collection, property, value })
CallBound ==
  /\ spc = "setup"
  /\ \E a \in setupActions, id \in 1..MaxArg, value \in 1..MaxArg :
       /\ setupCall' = [ name |-> a.name, id |-> id, value |-> value ]
       /\ setupSent' =
            [ type |-> a.name,
              payload |-> [ id |-> id, collection |-> a.collection,
                            property |-> a.property, value |-> value ] ]
  /\ spc' = "called"
  /\ UNCHANGED << collection, setupActions >>
  /\ UNCHANGED mvars
  /\ UNCHANGED pvars

NextSetup == Setup \/ CallBound

SpecSetup == InitSetup /\ [][NextSetup]_vars

Init ==
  /\ def \in Definitions
  /\ storeModule = Undefined
  /\ modState = Undefined
  /\ installed = << >>
  /\ objState = EmptyMap
  /\ combs = 0
  /\ pc = [v \in Views |-> "unbound"]
  /\ ret = [v \in Views |-> "none"]
  /\ cont = [v \in Views |-> "none"]
  /\ ops = [v \in Views |-> << >>]
  /\ lastProbe = NoProbe
  /\ sent = [v \in Views |-> NoPayload]
  /\ regState = [v \in Views |-> Undefined]
  /\ validated = Undefined
  /\ MergeIdle
  /\ SetupIdle

Next ==
  \/ Store
  \/ \E v \in Views : preFetch(v)
  \/ \E v \in Views : InitializeDone(v)
  \/ \E v \in Views : InitializeFailed(v)
  \/ \E v \in Views : FetchedCommit(v)
  \/ \E v \in Views : UserPreFetchFailed(v)
  \/ \E v \in Views : mounted(v)
  \/ \E v \in Views : destroyed(v)

Spec == Init /\ [][Next]_vars


\* ================================================================== claims

\* A view depends on the module from its mount hook to its destroy hook.
Attached(v) == pc[v] \in {"preFetch", "mounted"}

\* The composed module has the validation mutation, so checkModule runs its probe.
ProbeUsable ==
  /\ storeModule # Undefined
  /\ validationField \in DOMAIN Props(storeModule.mutations)

\* C1: between a view's mount hook and that view's destroy hook exactly one
\* module instance is registered under the name, never zero and never two,
\* for every interleaving of the hooks of two views.  Stated for the modules
\* whose probe is usable, where the code still breaks it: a prior view's
\* destroy hook unregisters the instance the other view depends on.
C1_ExactlyOneWhileAttached ==
  ProbeUsable => \A v \in Views : Attached(v) => Len(installed) = 1

\* C2: two mount hooks for the same name, the second before the first view's
\* destroy hook, never leave two instances registered: registerModule is
\* never applied on top of a still-registered instance, for every module
\* store() produces.
C2_NeverTwoRegistered == Len(installed) <= 1

\* C3: when the mount hook's probe succeeds, the hook calls neither
\* unregisterModule nor registerModule.
C3_ReuseOnMountSuccess ==
  (lastProbe.hook = "preFetch" /\ lastProbe.outcome = "success")
    => ops[lastProbe.view] = << >>

\* C3 as amended: when the mount hook's probe succeeds, the hook calls
\* unregisterModule and then registerModule, once each, so the instance found
\* is replaced by one the mounting view registered, and only that one is
\* registered when the hook returns.
C3_ReplaceOnMountSuccess ==
  (lastProbe.hook = "preFetch" /\ lastProbe.outcome = "success")
    => /\ ops[lastProbe.view] = << "unregisterModule", "registerModule" >>
       /\ installed = << lastProbe.view >>

C3_Witness ==
  /\ lastProbe.hook = "preFetch"
  /\ lastProbe.outcome = "success"
  /\ lastProbe.owner \notin {"none", lastProbe.view}
  /\ installed = << lastProbe.view >>

\* C4: when another view has re-registered the module under the name, the
\* probe of the prior view's destroy hook fails and the hook leaves the module
\* registered.
C4_StaleDestroyLeavesModule ==
  ( /\ lastProbe.hook = "destroyed"
    /\ lastProbe.owner \notin {"none", lastProbe.view} )
    => /\ lastProbe.outcome = "failure"
       /\ Len(installed) > 0

\* What the claims hold a successful probe to be: the module is registered
\* under the name, the namespaced validation mutation is installed, and the
\* validation field read back is the token just committed.
ProbeLive ==
  /\ lastProbe.registered
  /\ lastProbe.hasMutation
  /\ lastProbe.seen = lastProbe.token

MergeSources ==
  MergeOrder(margs.name, margs.model, margs.collections, margs.complexTypes,
             margs.user)

PresentSources == { i \in 1..4 : Truthy(MergeSources[i]) }

\* The value the latest present source gives a key.
RECURSIVE LatestValue(_, _)
LatestValue(k, n) ==
  IF n \in PresentSources /\ k \in DOMAIN MergeSources[n].map
  THEN MergeSources[n].map[k]
  ELSE LatestValue(k, n - 1)

UnionOfKeys == UNION { DOMAIN MergeSources[i].map : i \in PresentSources }

\* C6: when more than one of the four sources is present, the mapping merge
\* returns has the union of the keys of the present sources, and each key has
\* the value of the latest source that defines it in the order user, model,
\* collections, complexTypes; also when complexTypes is one of exactly two
\* present sources.
C6_MergePrecedence ==
  (mpc # "args" /\ Cardinality(PresentSources) > 1)
    => /\ mret # Undefined
       /\ DOMAIN mret.map = UnionOfKeys
       /\ \A k \in UnionOfKeys : mret.map[k] = LatestValue(k, 4)

\* C7: the module store() returns has a mutation named after the validation
\* field and one named after the fetch flag, each the direct assignment to the
\* same-named state field, for every module definition.
C7_BookkeepingMutations ==
  storeModule # Undefined
    => \A f \in {validationField, fetchedField} :
         /\ f \in DOMAIN Props(storeModule.mutations)
         /\ Props(storeModule.mutations)[f] = DirectAssign

\* C8: when exactly one of the four sources is present, merge returns that
\* very source: the same object, a plain mapping or a factory as it was.
C8_SingleSourceIdentity ==
  (mpc # "args" /\ Cardinality(PresentSources) = 1)
    => \A i \in PresentSources : mret = MergeSources[i]

C8_Witness ==
  /\ mpc = "invoked"
  /\ PresentSources = {4}
  /\ mret = MergeSources[4]
  /\ HasCall(mret)
  /\ DOMAIN minv # {}

\* C9: when the promise chain of a view's preFetch completes after the module
\* was unregistered, or after another view registered its instance under the
\* name, the fetch-flag write changes no state.
C9_LateCompletionNoOp ==
  [][ \A v \in Views :
        ( /\ cont[v] = "userPreFetch"
          /\ cont'[v] = "done"
          /\ Owner(Registry) # v )
          => modState' = modState ]_vars

\* C10: when the initialize action dispatched by the mount hook fails
\* asynchronously, the caller of preFetch receives a rejected result.
C10_FailureReachesCaller ==
  \A v \in Views : cont[v] = "initializeRejected" => ret[v] = "rejected"

\* C11: if the initialize action a mount dispatched fails, the fetch flag of the
\* module that mount registered is left false (that mount never sets it).
C11_FailedInitializeLeavesFlagFalse ==
  \A v \in Views :
    (cont[v] = "initializeRejected" /\ Owner(Registry) = v)
      => modState[fetchedField] = False

\* A step that turns the fetch flag of the registered module to true.
FlagTurnsTrue ==
  /\ installed' = installed
  /\ modState # Undefined
  /\ modState' # Undefined
  /\ modState[fetchedField] # True
  /\ modState'[fetchedField] = True

\* C12: a mount hook that dispatched initialize did so after its registerModule
\* and with { route: currentRoute, from: previousRoute, next: redirect }, and the
\* fetch flag is turned to true only by the step of a mount's chain that follows
\* the completion of its initialize action and then of the page's own preFetch.
C12_FlagSetOnlyAfterCompletion ==
  [][ /\ \A v \in Views :
           cont'[v] # "none" =>
             /\ ops'[v][Len(ops'[v])] = "registerModule"
             /\ sent'[v].route = << "currentRoute", v >>
             /\ sent'[v].from = << "previousRoute", v >>
             /\ sent'[v].next = << "redirect", v >>
      /\ FlagTurnsTrue =>
           \E v \in Views : cont[v] = "userPreFetch" /\ cont'[v] = "done" ]_vars

C12_Witness ==
  \E v \in Views :
    /\ cont[v] = "done"
    /\ Owner(Registry) = v
    /\ sent[v] # NoPayload
    /\ modState[fetchedField] = True

\* C13: once a view's mounted hook has run and its initialize continuation has
\* completed successfully, in either order, the fetch flag of the module it
\* registered is true.
C13_FlagTrueAfterMountedAndInitialized ==
  \A v \in Views :
    (pc[v] = "mounted" /\ cont[v] = "done" /\ Owner(Registry) = v)
      => modState[fetchedField] = True

\* C14: when the probe of a mount hook fails, the hook leaves exactly one
\* instance registered under the module name, its own, and that instance is
\* fresh: validation field 0 and fetch flag false.
C14_FreshInstanceOnProbeFailure ==
  [][ \A v \in Views :
        ( /\ pc[v] = "unbound"
          /\ pc'[v] # "unbound"
          /\ lastProbe'.outcome = "failure" )
          => /\ installed' = << v >>
             /\ modState'[validationField] = Num(0)
             /\ modState'[fetchedField] = False ]_vars

\* A mapping with the identities of its nested objects forgotten.
Structure(m) ==
  [k \in DOMAIN m |-> IF m[k].t = "object" THEN Ref(m[k].v % 10) ELSE m[k]]

\* The nested objects a mapping holds.
Nested(m) == { m[k] : k \in { j \in DOMAIN m : m[j].t = "object" } }

\* C15: a section merged from two or more sources of which at least one is a
\* factory comes out as a factory, and each invocation of it returns a mapping
\* structurally equal to the merged mapping (every key of every source, with
\* the latest source's value) that shares no nested object with the mapping
\* another invocation returns; for state, mutations, actions and getters alike.
C15_MergedFactoryFreshCopies ==
  ( /\ mpc # "args"
    /\ Cardinality(PresentSources) > 1
    /\ \E i \in PresentSources : HasCall(MergeSources[i]) )
    => /\ mret # Undefined
       /\ HasCall(mret)
       /\ mpc = "invoked" =>
            /\ DOMAIN minv = UnionOfKeys
            /\ DOMAIN minv2 = UnionOfKeys
            /\ \A k \in UnionOfKeys :
                 /\ Structure(minv)[k] = LatestValue(k, 4)
                 /\ Structure(minv2)[k] = LatestValue(k, 4)
            /\ Nested(minv) \cap Nested(minv2) = {}

\* C16: the state of the module store() returns, materialized when it is a
\* factory, holds the validation field with 0 and the fetch flag field with
\* false, for every module definition.
C16_BookkeepingState ==
  storeModule # Undefined
    => /\ storeModule.state # Undefined
       /\ LET state == Materialize(storeModule.state)
          IN /\ validationField \in DOMAIN state
             /\ fetchedField \in DOMAIN state
             /\ state[validationField] = Num(0)
             /\ state[fetchedField] = False

\* The author's state factory declares the fetch flag itself, with another
\* value, and the state is merged with the model's.
C16_Witness ==
  /\ storeModule # Undefined
  /\ def.model
  /\ def.complexTypes
  /\ def.state # Undefined
  /\ HasCall(def.state)
  /\ fetchedField \in DOMAIN def.state.map
  /\ HasCall(storeModule.state)
  /\ Materialize(storeModule.state)[fetchedField] = False

\* C17: the actions of the module store() returns include initialize; when the
\* merged actions hold an initialize action the actions are the merged ones
\* unchanged, and otherwise they are the merged ones plus a default initialize
\* (the initialize argument of store(), or a no-op).
C17_InitializePresent ==
  storeModule # Undefined
    => LET merged == MergedActions(def).map
           actions == storeModule.actions.map
       IN /\ "initialize" \in DOMAIN actions
          /\ \A k \in DOMAIN merged : k \in DOMAIN actions /\ actions[k] = merged[k]
          /\ DOMAIN actions = DOMAIN merged \cup {"initialize"}
          /\ "initialize" \notin DOMAIN merged =>
               actions["initialize"] \in {InitializeArg, NoOpInitialize}

\* The author's own initialize came out of the merge and an initialize
\* argument was passed as well.
C17_Witness ==
  /\ storeModule # Undefined
  /\ def.initialize
  /\ def.collections
  /\ "initialize" \in DOMAIN MergedActions(def).map
  /\ storeModule.actions.map["initialize"] = Fn(1)

C19_NothingRegisteredAfterLastDestroy ==
  ( /\ \E v \in Views : pc[v] # "unbound"
    /\ \A v \in Views : pc[v] \in {"unbound", "destroyed"}
    /\ \A v \in Views : cont[v] \notin {"initialize", "userPreFetch"} )
    => /\ Len(installed) = 0
       /\ modState = Undefined

\* C20: when the state of the module store() returns is a factory, the states
\* two registrations obtain from it share no nested object, also when the only
\* state source is a factory supplied by the author.
C20_FactoryStateNotShared ==
  ( /\ storeModule # Undefined
    /\ HasCall(storeModule.state)
    /\ \A v \in Views : regState[v] # Undefined )
    => \A v, w \in Views :
         v # w => Nested(regState[v]) \cap Nested(regState[w]) = {}

\* The state fields and the mutations the author declared.
DeclaredState == IF def.state = Undefined THEN EmptyMap ELSE Materialize(def.state)
DeclaredMutations ==
  IF def.mutations = Undefined THEN EmptyMap ELSE def.mutations.map

\* C21: preperValidation leaves every state field and every mutation the author
\* declared under another name unchanged in name and value, adds nothing but
\* the two reserved names, keeps the state a plain mapping or a factory as the
\* author gave it, and sets the two reserved names (state 0 and false,
\* mutations the direct assignment) whatever the author declared under them.
C21_InjectionFrame ==
  storeModule # Undefined
    => LET reserved == {validationField, fetchedField}
           state == Materialize(validated.state)
           mutations == validated.mutations.map
       IN /\ DOMAIN state = DOMAIN DeclaredState \cup reserved
          /\ \A k \in DOMAIN DeclaredState \ reserved : state[k] = DeclaredState[k]
          /\ state[validationField] = Num(0)
          /\ state[fetchedField] = False
          /\ HasCall(validated.state)
               <=> (def.state # Undefined /\ HasCall(def.state))
          /\ DOMAIN mutations = DOMAIN DeclaredMutations \cup reserved
          /\ \A k \in DOMAIN DeclaredMutations \ reserved :
               mutations[k] = DeclaredMutations[k]
          /\ \A k \in reserved : mutations[k] = DirectAssign

\* The author's state and mutations both declare a reserved name, next to
\* another name, and preperValidation has run.
C21_Witness ==
  /\ storeModule # Undefined
  /\ \E k \in {validationField, fetchedField} :
       /\ k \in DOMAIN DeclaredState
       /\ DeclaredState[k] = Num(1)
       /\ k \in DOMAIN DeclaredMutations
       /\ DeclaredMutations[k] = Fn(1)
       /\ validated.mutations.map[k] = DirectAssign
  /\ "count" \in DOMAIN DeclaredState
  /\ Materialize(validated.state)["count"] = Num(1)
  /\ Materialize(validated.state)[fetchedField] = False

====
